---- MODULE Spec2Model ----
(***************************************************************************)
(* Retail shoe-shop chatbot: the request pipeline of RetailAgent           *)
(* (backend/app/agents.py) as driven by one WebSocket connection           *)
(* (backend/app/main.py), over the inventory table of backend/app/db.py.   *)
(*                                                                         *)
(* Texts are sequences of one-character strings, so that substring tests,  *)
(* lower-casing, stripping and concatenation are computed as Python        *)
(* computes them.                                                          *)
(***************************************************************************)
EXTENDS Integers, Sequences, FiniteSets, TLC

\* ---------------------------------------------------------------- bounds
\* process_message calls made on one connection
MaxCalls == 2

\* ------------------------------------------------------- character tables
UpperChars ==
    <<"A","B","C","D","E","F","G","H","I","J","K","L","M","N","O","P","Q",
      "R","S","T","U","V","W","X","Y","Z">>

LowerChars ==
    <<"a","b","c","d","e","f","g","h","i","j","k","l","m","n","o","p","q",
      "r","s","t","u","v","w","x","y","z">>

Digits ==
    <<"0","1","2","3","4","5","6","7","8","9">>

Spaces == {" ", "\t", "\n", "\r", "\f"}

IsSpace(c) == c \in Spaces

IsDigit(c) == \E i \in 1..Len(Digits) : Digits[i] = c

\* Python's None; `if activity:` / `if size:` treat None and "" alike.
None == <<>>

\* -------------------------------------------------------- str primitives
SetMin(S) == CHOOSE x \in S : \A y \in S : x <= y

SetMax(S) == CHOOSE x \in S : \A y \in S : x >= y

\* c.lower() for one character
LowerChar(c) ==
    IF \E i \in 1..Len(UpperChars) : UpperChars[i] = c
    THEN LowerChars[CHOOSE i \in 1..Len(UpperChars) : UpperChars[i] = c]
    ELSE c

\* c.upper() for one character
UpperChar(c) ==
    IF \E i \in 1..Len(LowerChars) : LowerChars[i] = c
    THEN UpperChars[CHOOSE i \in 1..Len(LowerChars) : LowerChars[i] = c]
    ELSE c

\* s.lower()
Lower(s) == [i \in 1..Len(s) |-> LowerChar(s[i])]

\* s.capitalize(): first character upper-cased, the rest lower-cased
Capitalize(s) ==
    [i \in 1..Len(s) |-> IF i = 1 THEN UpperChar(s[i]) ELSE LowerChar(s[i])]

\* sub occurs in s at position i
MatchAt(s, sub, i) ==
    /\ i + Len(sub) - 1 <= Len(s)
    /\ \A k \in 1..Len(sub) : s[i + k - 1] = sub[k]

\* `sub in s`
Contains(s, sub) == \E i \in 1..(Len(s) + 1) : MatchAt(s, sub, i)

\* s.strip()
Strip(s) ==
    LET keep == {i \in 1..Len(s) : ~IsSpace(s[i])}
    IN  IF keep = {} THEN <<>> ELSE SubSeq(s, SetMin(keep), SetMax(keep))

RECURSIVE Join(_, _)
\* sep.join(parts)
Join(parts, sep) ==
    IF Len(parts) = 0 THEN <<>>
    ELSE IF Len(parts) = 1 THEN parts[1]
    ELSE parts[1] \o sep \o Join(Tail(parts), sep)

RECURSIVE IntText(_)
\* str(n) for a natural number n
IntText(n) ==
    IF n < 10 THEN <<Digits[n + 1]>>
    ELSE IntText(n \div 10) \o <<Digits[(n % 10) + 1]>>

\* f"${price:.1f}"-like: one decimal only
PriceTextOneDecimal(cents) ==
    <<"$">> \o IntText(cents \div 100) \o <<".">>
        \o <<Digits[((cents % 100) \div 10) + 1]>>

\* f"${price:.2f}" for a price held in cents
PriceText(cents) ==
    <<"$">> \o IntText(cents \div 100) \o <<".">>
        \o <<Digits[((cents % 100) \div 10) + 1], Digits[(cents % 10) + 1]>>

\* ---------------------------------------------------------- fixed texts
DefaultOutput ==
    <<"I","'","m"," ","s","o","r","r","y",","," ","I"," ","c","o","u","l",
      "d","n","'","t"," ","p","r","o","c","e","s","s"," ","y","o","u","r",
      " ","r","e","q","u","e","s","t",".">>

SoftPrefix ==
    <<"L","e","t"," ","m","e"," ","s","h","o","w"," ","y","o","u"," ","w",
      "h","a","t"," ","w","e"," ","h","a","v","e"," ","a","v","a","i","l",
      "a","b","l","e",":","\n">>

HardPrefix ==
    <<"I"," ","a","p","o","l","o","g","i","z","e"," ","f","o","r"," ","t",
      "h","e"," ","c","o","n","f","u","s","i","o","n","."," ","L","e","t",
      " ","m","e"," ","s","h","o","w"," ","y","o","u"," ","o","u","r"," ",
      "a","v","a","i","l","a","b","l","e"," ","s","h","o","e","s",":","\n">>

Unavailable ==
    <<"I"," ","a","p","o","l","o","g","i","z","e",","," ","b","u","t"," ",
      "I","'","m"," ","h","a","v","i","n","g"," ","t","r","o","u","b","l",
      "e"," ","a","c","c","e","s","s","i","n","g"," ","t","h","e"," ","i",
      "n","v","e","n","t","o","r","y"," ","r","i","g","h","t"," ","n","o",
      "w","."," ","P","l","e","a","s","e"," ","t","r","y"," ","a","g","a",
      "i","n"," ","i","n"," ","a"," ","m","o","m","e","n","t",".">>

InventoryTrouble ==
    <<"S","o","r","r","y",","," ","I"," ","h","a","d"," ","t","r","o","u",
      "b","l","e"," ","c","h","e","c","k","i","n","g"," ","t","h","e"," ",
      "i","n","v","e","n","t","o","r","y","."," ","P","l","e","a","s","e",
      " ","t","r","y"," ","a","g","a","i","n",".">>

NoShoes ==
    <<"N","o"," ","s","h","o","e","s"," ","f","o","u","n","d"," ","m","a",
      "t","c","h","i","n","g"," ","y","o","u","r"," ","c","r","i","t","e",
      "r","i","a",".">>

Intro ==
    <<"H","e","r","e"," ","a","r","e"," ","t","h","e"," ","a","v","a","i",
      "l","a","b","l","e"," ","s","h","o","e","s",":">>

Closing ==
    <<"\n","W","o","u","l","d"," ","y","o","u"," ","l","i","k","e"," ","m",
      "o","r","e"," ","i","n","f","o","r","m","a","t","i","o","n"," ","a",
      "b","o","u","t"," ","a","n","y"," ","s","p","e","c","i","f","i","c",
      " ","s","h","o","e","?">>

ToolName ==
    <<"c","h","e","c","k","_","i","n","v","e","n","t","o","r","y">>

ToolDescription ==
    <<"C","h","e","c","k"," ","a","v","a","i","l","a","b","l","e"," ","s",
      "h","o","e"," ","i","n","v","e","n","t","o","r","y","."," ","Y","o",
      "u"," ","c","a","n"," ","s","p","e","c","i","f","y"," ","a","c","t",
      "i","v","i","t","y"," ","(","r","u","n","n","i","n","g","/","h","i",
      "k","i","n","g","/","w","a","l","k","i","n","g",")"," ","a","n","d",
      "/","o","r"," ","s","i","z","e",".">>

AllQuery ==
    <<"a","l","l">>

ShowAllQuery ==
    <<"s","h","o","w"," ","a","l","l">>

EverythingQuery ==
    <<"e","v","e","r","y","t","h","i","n","g">>

SizeWord ==
    <<"s","i","z","e">>

Dash ==
    <<"-"," ">>

CommaSize ==
    <<","," ","S","i","z","e"," ">>

Comma ==
    <<","," ">>

OpenParen ==
    <<" ","(">>

InStock ==
    <<" ","i","n"," ","s","t","o","c","k",")">>

ShoesHeader ==
    <<" ","S","h","o","e","s",":">>

\* ------------------------------------------------------------- inventory
Running ==
    <<"r","u","n","n","i","n","g">>

Hiking ==
    <<"h","i","k","i","n","g">>

Walking ==
    <<"w","a","l","k","i","n","g">>

SpeedRunnerPro ==
    <<"S","p","e","e","d"," ","R","u","n","n","e","r"," ","P","r","o">>

TrailBlazerX ==
    <<"T","r","a","i","l"," ","B","l","a","z","e","r"," ","X">>

MarathonElite ==
    <<"M","a","r","a","t","h","o","n"," ","E","l","i","t","e">>

\* rows of the sample data, the price in cents
Catalogs ==
    { <<>>,
      <<[id |-> 1, name |-> SpeedRunnerPro, activity |-> Running,
         size |-> <<"1","0">>, price |-> 12999, stock |-> 5]>>,
      <<[id |-> 1, name |-> SpeedRunnerPro, activity |-> Running,
         size |-> <<"1","0">>, price |-> 12999, stock |-> 5],
        [id |-> 4, name |-> TrailBlazerX, activity |-> Hiking,
         size |-> <<"1","0">>, price |-> 15999, stock |-> 0],
        [id |-> 8, name |-> MarathonElite, activity |-> Running,
         size |-> <<"9">>, price |-> 14999, stock |-> 3]>>,
      <<[id |-> 1, name |-> SpeedRunnerPro, activity |-> Running,
         size |-> <<"1","0">>, price |-> 12999, stock |-> 5],
        [id |-> 4, name |-> TrailBlazerX, activity |-> Hiking,
         size |-> <<"1","0">>, price |-> 15999, stock |-> 4],
        [id |-> 8, name |-> MarathonElite, activity |-> Running,
         size |-> <<"1","0">>, price |-> 14999, stock |-> 3]>> }

\* the same query without its stock condition
get_inventory_any_stock(rows, activity, size) ==
    SelectSeq(rows, LAMBDA p :
        /\ (activity # None => p.activity = activity)
        /\ (size # None => p.size = size))

\* SELECT * FROM inventory WHERE stock > 0 [AND activity = ?] [AND size = ?]
get_inventory(rows, activity, size) ==
    SelectSeq(rows, LAMBDA p :
        /\ p.stock > 0
        /\ (activity # None => p.activity = activity)
        /\ (size # None => p.size = size))

\* --------------------------------------------------------- query parsing
RECURSIVE SkipSpaces(_, _)
\* first position at or after i that holds no whitespace (regex \s*)
SkipSpaces(s, i) ==
    IF i <= Len(s) /\ IsSpace(s[i]) THEN SkipSpaces(s, i + 1) ELSE i

RECURSIVE DigitsEnd(_, _)
\* last position of the run of digits that starts at i (regex \d+)
DigitsEnd(s, i) ==
    IF i + 1 <= Len(s) /\ IsDigit(s[i + 1]) THEN DigitsEnd(s, i + 1) ELSE i

\* re.search(r'size\s*(\d+)', q).group(1), None when there is no match
SizeMatch(q) ==
    LET starts == {i \in 1..Len(q) :
                      /\ MatchAt(q, SizeWord, i)
                      /\ LET j == SkipSpaces(q, i + Len(SizeWord))
                         IN  j <= Len(q) /\ IsDigit(q[j])}
    IN  IF starts = {} THEN None
        ELSE LET j == SkipSpaces(q, SetMin(starts) + Len(SizeWord))
             IN  SubSeq(q, j, DigitsEnd(q, j))

\* the pattern searched in the query as typed
ParseSizeCaseSensitive(query) ==
    IF Contains(query, SizeWord) THEN SizeMatch(query) ELSE None

ParseSize(query) ==
    IF Contains(Lower(query), SizeWord) THEN SizeMatch(Lower(query)) ELSE None

Activities == <<Running, Hiking, Walking>>

\* the keyword that comes first in the text of the query
ParseActivityFirstInText(query) ==
    LET q == Lower(query)
        at(a) == {i \in 1..Len(q) : MatchAt(q, a, i)}
        hits == {k \in 1..Len(Activities) : at(Activities[k]) # {}}
    IN  IF hits = {} THEN None
        ELSE Activities[CHOOSE k \in hits :
                 \A j \in hits : SetMin(at(Activities[k]))
                                     <= SetMin(at(Activities[j]))]

\* for act in activities: if act in query.lower(): activity = act; break
ParseActivity(query) ==
    LET hits == {i \in 1..Len(Activities) : Contains(Lower(query), Activities[i])}
    IN  IF hits = {} THEN None ELSE Activities[SetMin(hits)]

AllQueries == {AllQuery, <<>>, ShowAllQuery, EverythingQuery}

IsAllQuery(query) == Strip(Lower(query)) \in AllQueries

\* what the lookup makes of its query: no filter at all, or the two
\* filters, each found on its own
ParseQuery(query) ==
    IF IsAllQuery(query)
    THEN [unfiltered |-> TRUE, activity |-> None, size |-> None]
    ELSE [unfiltered |-> FALSE, activity |-> ParseActivity(query),
          size |-> ParseSize(query)]

\* result = await self.db.get_inventory(...)
LookupRows(query, rows) ==
    LET p == ParseQuery(query)
    IN  IF p.unfiltered THEN get_inventory(rows, None, None)
        ELSE get_inventory(rows, p.activity, p.size)

\* --------------------------------------------------------- result format
\* the groups in the order of the alphabet
ActivityOrderSorted(items, seen) ==
    SelectSeq(<<Hiking, Running, Walking>>,
              LAMBDA a : \E k \in 1..Len(items) : items[k].activity = a)

RECURSIVE ActivityOrder(_, _)
\* keys of shoes_by_activity in insertion order
ActivityOrder(items, seen) ==
    IF Len(items) = 0 THEN seen
    ELSE IF \E k \in 1..Len(seen) : seen[k] = items[1].activity
         THEN ActivityOrder(Tail(items), seen)
         ELSE ActivityOrder(Tail(items), Append(seen, items[1].activity))

ShoeLine(p) ==
    Dash \o p.name \o CommaSize \o p.size \o Comma \o PriceText(p.price)
         \o OpenParen \o IntText(p.stock) \o InStock

RECURSIVE GroupParts(_, _)
GroupParts(items, order) ==
    IF Len(order) = 0 THEN <<>>
    ELSE LET shoes == SelectSeq(items, LAMBDA p : p.activity = order[1])
         IN  <<<<"\n">> \o Capitalize(order[1]) \o ShoesHeader>>
                 \o [k \in 1..Len(shoes) |-> ShoeLine(shoes[k])]
                 \o GroupParts(items, Tail(order))

\* no early return for an empty result
FormatInventoryNoEarlyReturn(result) ==
    Join(<<Intro>> \o GroupParts(result, ActivityOrder(result, <<>>))
                   \o <<Closing>>, <<"\n">>)

FormatInventory(result) ==
    IF Len(result) = 0 THEN NoShoes
    ELSE Join(<<Intro>> \o GroupParts(result, ActivityOrder(result, <<>>))
                        \o <<Closing>>, <<"\n">>)

\* a lookup whose formatting fails on an empty result, which its own
\* try/except then reports as trouble
CheckInventoryAsyncEmptyFails(query, rows, dbFails) ==
    LET result == LookupRows(query, rows)
    IN  IF dbFails \/ Len(result) = 0
        THEN [raised |-> FALSE, text |-> InventoryTrouble]
        ELSE [raised |-> FALSE, text |-> FormatInventory(result)]

\* a lookup without its try/except: the store's exception goes on to the
\* caller
CheckInventoryAsyncPropagates(query, rows, dbFails) ==
    IF dbFails
    THEN [raised |-> TRUE, text |-> <<>>]
    ELSE [raised |-> FALSE,
          text |-> FormatInventory(LookupRows(query, rows))]

\* _check_inventory_async: the store query may raise (dbFails); the
\* function's own try/except turns that into the fixed apology.
CheckInventoryAsync(query, rows, dbFails) ==
    IF dbFails
    THEN [raised |-> FALSE, text |-> InventoryTrouble]
    ELSE [raised |-> FALSE,
          text |-> FormatInventory(LookupRows(query, rows))]

\* ------------------------------------------------------ reasoning input
Tools == <<[name |-> ToolName, description |-> ToolDescription]>>

\* "\n".join(f"- {tool.name}: {tool.description}" for tool in self.tools)
ToolsDescription ==
    Join([k \in 1..Len(Tools) |->
             Dash \o Tools[k].name \o <<":", " ">> \o Tools[k].description],
         <<"\n">>)

\* ", ".join(tool.name for tool in self.tools)
ToolNamesText == Join([k \in 1..Len(Tools) |-> Tools[k].name], Comma)

\* the dict handed to agent_executor.ainvoke in the primary attempt
PrimaryInput(msg) ==
    [input |-> msg, agent_scratchpad |-> <<>>,
     tools |-> ToolsDescription, tool_names |-> ToolNamesText]

\* a fallback attempt that is handed an empty message instead
FallbackInputStale(msg) ==
    [input |-> <<>>, agent_scratchpad |-> <<>>,
     tools |-> ToolsDescription, tool_names |-> ToolNamesText]

\* the dict handed to agent_executor.ainvoke in the fallback attempt
FallbackInput(msg) ==
    [input |-> msg, agent_scratchpad |-> <<>>,
     tools |-> ToolsDescription, tool_names |-> ToolNamesText]

\* ------------------------------------------------- environment's choices
MsgBlank ==
    <<" ","\n">>

MsgShoes ==
    <<"r","u","n","n","i","n","g"," ","s","h","o","e","s"," ","s","i","z",
      "e"," ","1","0">>

OutOk ==
    <<"W","e"," ","h","a","v","e"," ","T","r","a","i","l"," ","B","l","a",
      "z","e","r"," ","X",".">>

OutError ==
    <<"E","R","R","O","R"," ","5","0","0">>

OutCouldnt ==
    <<"S","o","r","r","y",","," ","I"," ","C","o","u","l","d","n","'","t",
      " ","P","r","o","c","e","s","s"," ","t","h","a","t">>

ErrorWord ==
    <<"e","r","r","o","r">>

CouldntProcess ==
    <<"c","o","u","l","d","n","'","t"," ","p","r","o","c","e","s","s">>

Messages == {<<>>, MsgBlank, MsgShoes}

BackendOutputs == {OutOk, OutError, OutCouldnt}

\* what one ainvoke does: raise, or return a dict with or without "output"
BackendReplies ==
    {[raised |-> TRUE, has_output |-> FALSE, output |-> <<>>],
     [raised |-> FALSE, has_output |-> FALSE, output |-> <<>>]}
    \cup {[raised |-> FALSE, has_output |-> TRUE, output |-> t] :
             t \in BackendOutputs}

\* result.get("output", "I'm sorry, I couldn't process your request.")
ResultOutput(r) == IF r.has_output THEN r.output ELSE DefaultOutput

\* the same test without .lower()
IsSoftFailureCaseSensitive(response) ==
    \/ Contains(response, ErrorWord)
    \/ Contains(response, CouldntProcess)

\* "error" in response.lower() or "couldn't process" in response.lower()
IsSoftFailure(response) ==
    \/ Contains(Lower(response), ErrorWord)
    \/ Contains(Lower(response), CouldntProcess)

\* ------------------------------------------------------------------ state
VARIABLES
    inventory,      \* rows of the inventory table
    memory,         \* self.memory.chat_memory.messages
    current_llm,    \* self.current_llm: "primary" or "fallback"
    executor_llm,   \* the llm bound into self.agent / self.agent_executor
    pc,             \* where the connection's coroutine stands
    message,        \* process_message's argument
    returned,       \* the text process_message last returned
    invocations,    \* ainvoke calls made by the current process_message
    lookups,        \* _check_inventory_async calls made by the current one
    mark,           \* Len(memory) when the current process_message began
    calls,          \* process_message calls begun on this connection
    tool_pc,        \* _check_inventory_sync: "idle", or "waiting" in
                    \* future.result(timeout=10)
    tool_thread,    \* the thread the waiting callback runs on
    coros,          \* _check_inventory_async coroutines scheduled on
                    \* self.loop by run_coroutine_threadsafe
    observation,    \* what the callback last returned to the backend
    iterations,     \* tool invocations of the current ainvoke
    agent_of,       \* per connection: the RetailAgent its handler created
    memories,       \* per RetailAgent: its chat_memory.messages
    conn_pc,        \* per connection: where its handler stands
    conn_log,       \* per connection: the turns its own handler added
    lookup_query,   \* the argument of a lone _check_inventory_async call
    lookup,         \* what that call parsed, fetched and returned
    orders,         \* rows of the orders table
    placing,        \* per place_order call: where it stands, and its
                    \* arguments
    queried         \* the last get_inventory call: its filters, the rows
                    \* of the table it ran on, and what it returned

pipevars == <<inventory, memory, current_llm, executor_llm, pc, message,
              returned, invocations, lookups, mark, calls>>

toolvars == <<tool_pc, tool_thread, coros, observation, iterations>>

connvars == <<agent_of, memories, conn_pc, conn_log>>

lookupvars == <<lookup_query, lookup>>

ordervars == <<orders, placing, queried>>

\* the state of a process_message call, without the inventory table
callvars == <<memory, current_llm, executor_llm, pc, message, returned,
              invocations, lookups, mark, calls>>

vars == <<pipevars, toolvars, connvars, lookupvars, ordervars>>

PrimaryLLM == "primary"

FallbackLLM == "fallback"

\* connections of the server
MaxConns == 2

Conns == 1..MaxConns

\* no tool callback is running and no coroutine is scheduled
ToolIdle ==
    /\ tool_pc = "idle"
    /\ tool_thread = "none"
    /\ coros = <<>>
    /\ observation = <<>>
    /\ iterations = 0

\* no connection has been accepted
ConnIdle ==
    /\ agent_of = [c \in Conns |-> 0]
    /\ memories = [a \in Conns |-> <<>>]
    /\ conn_pc = [c \in Conns |-> "connecting"]
    /\ conn_log = [c \in Conns |-> <<>>]

\* no lone lookup is under way
LookupIdle ==
    /\ lookup_query = <<>>
    /\ lookup = <<>>

\* concurrent place_order calls
MaxOrders == 2

Procs == 1..MaxOrders

\* no order has been asked for and the table has not been queried
OrderIdle ==
    /\ orders = <<>>
    /\ placing = [p \in Procs |-> [pc |-> "idle"]]
    /\ queried = <<>>

\* websocket_endpoint after accept(): a fresh RetailAgent, waiting in
\* receive_text()
Init ==
    /\ ToolIdle
    /\ ConnIdle
    /\ LookupIdle
    /\ OrderIdle
    /\ inventory \in Catalogs
    /\ memory = <<>>
    /\ current_llm = PrimaryLLM
    /\ executor_llm = PrimaryLLM
    /\ pc = "receive"
    /\ message = <<>>
    /\ returned = <<>>
    /\ invocations = <<>>
    /\ lookups = <<>>
    /\ mark = 0
    /\ calls = 0

HumanMessage(text) == [role |-> "user", content |-> text]

AIMessage(text) == [role |-> "assistant", content |-> text]

\* only the inner try/except, without the outer one
HandlerInnerOnly(site) ==
    CASE site \in {"primary", "primary_inventory"} -> "fallback"
      [] OTHER -> "propagated"

\* the except clause that receives an exception raised at a site of
\* process_message
Handler(site) ==
    CASE site \in {"primary", "primary_inventory"} -> "fallback"
      [] site \in {"fallback", "fallback_inventory"} -> "outer_except"
      [] OTHER -> "propagated"

\* self.current_llm = ...; self.agent = self._create_agent();
\* self.agent_executor = self._create_executor()
UseLLM(llm) ==
    /\ current_llm' = llm
    /\ executor_llm' = llm

\* a fallback attempt without its finally clause
FinallyResetSkipped == UNCHANGED <<current_llm, executor_llm>>

\* the finally clause of the fallback attempt
FinallyReset == UseLLM(PrimaryLLM)

\* an exception inside the primary attempt
PrimaryRaised(site) ==
    /\ pc' = Handler(site)
    /\ IF Handler(site) = "fallback"
       THEN UseLLM(FallbackLLM)
       ELSE UNCHANGED <<current_llm, executor_llm>>
    /\ UNCHANGED <<memory, returned>>

\* an exception inside the fallback attempt: finally, then the outer handler
FallbackRaised(site) ==
    /\ pc' = Handler(site)
    /\ FinallyReset
    /\ UNCHANGED <<memory, returned>>

\* self.memory.chat_memory.add_ai_message(response); return response
RecordAndReturn(response) ==
    /\ memory' = Append(memory, AIMessage(response))
    /\ returned' = response
    /\ pc' = "send"

\* the fallback response when the backend's text is a soft failure
SoftResponse(inv) == SoftPrefix \o inv.text

\* an outer handler that drops the inventory text
DegradedResponseNoDump(inv) ==
    IF inv.raised THEN Unavailable ELSE HardPrefix

\* the outer handler's response
DegradedResponse(inv) ==
    IF inv.raised THEN Unavailable ELSE HardPrefix \o inv.text

Lookup(query, dbFails) ==
    [query |-> query, dbFails |-> dbFails,
     result |-> CheckInventoryAsync(query, inventory, dbFails)]

\* ---------------------------------------------------------------- actions
\* message = await websocket.receive_text(); process_message up to the
\* first await: add_user_message and the tool texts
ReceiveText(msg) ==
    /\ pc = "receive"
    /\ calls < MaxCalls
    /\ calls' = calls + 1
    /\ message' = msg
    /\ mark' = Len(memory)
    /\ memory' = Append(memory, HumanMessage(msg))
    /\ invocations' = <<>>
    /\ lookups' = <<>>
    /\ pc' = "primary"
    /\ UNCHANGED <<inventory, current_llm, executor_llm, returned>>
    /\ UNCHANGED <<toolvars, connvars, lookupvars, ordervars>>

\* AgentExecutor(..., max_iterations=3)
max_iterations == 3

\* an executor that raises once its iterations are used up
ExecutorRepliesRaiseAtCap(n) ==
    IF n < max_iterations THEN BackendReplies
    ELSE {r \in BackendReplies : r.raised}

\* how an ainvoke can end after n tool invocations: AgentExecutor with
\* max_iterations=3 and its default early stopping asks the backend
\* nothing more once the iterations are used up and returns a dict with
\* an "output" text
ExecutorReplies(n) ==
    IF n < max_iterations THEN BackendReplies
    ELSE {r \in BackendReplies : ~r.raised /\ r.has_output}

\* await self.agent_executor.ainvoke({...}) in the primary attempt
PrimaryInvoke(r) ==
    /\ pc = "primary"
    /\ tool_pc = "idle"
    /\ r \in ExecutorReplies(iterations)
    /\ iterations' = 0
    /\ invocations' = Append(invocations,
           [llm |-> executor_llm, input |-> PrimaryInput(message), reply |-> r,
            iterations |-> iterations])
    /\ IF r.raised
       THEN PrimaryRaised("primary")
       ELSE IF IsSoftFailure(ResultOutput(r))
            THEN /\ pc' = "primary_inventory"
                 /\ UNCHANGED <<memory, returned, current_llm, executor_llm>>
            ELSE /\ RecordAndReturn(ResultOutput(r))
                 /\ UNCHANGED <<current_llm, executor_llm>>
    /\ UNCHANGED <<inventory, message, lookups, mark, calls>>
    /\ UNCHANGED <<tool_pc, tool_thread, coros, observation>>
    /\ UNCHANGED <<connvars, lookupvars, ordervars>>

\* inventory = await self._check_inventory_async("all") after a soft
\* failure of the primary attempt
PrimaryInventory(dbFails) ==
    /\ pc = "primary_inventory"
    /\ LET l == Lookup(AllQuery, dbFails)
       IN  /\ lookups' = Append(lookups, l)
           /\ IF l.result.raised
              THEN PrimaryRaised("primary_inventory")
              ELSE /\ RecordAndReturn(SoftResponse(l.result))
                   /\ UNCHANGED <<current_llm, executor_llm>>
    /\ UNCHANGED <<inventory, message, invocations, mark, calls>>
    /\ UNCHANGED <<toolvars, connvars, lookupvars, ordervars>>

\* await self.agent_executor.ainvoke({...}) in the fallback attempt
FallbackInvoke(r) ==
    /\ pc = "fallback"
    /\ tool_pc = "idle"
    /\ r \in ExecutorReplies(iterations)
    /\ iterations' = 0
    /\ invocations' = Append(invocations,
           [llm |-> executor_llm, input |-> FallbackInput(message), reply |-> r,
            iterations |-> iterations])
    /\ IF r.raised
       THEN FallbackRaised("fallback")
       ELSE IF IsSoftFailure(ResultOutput(r))
            THEN /\ pc' = "fallback_inventory"
                 /\ UNCHANGED <<memory, returned, current_llm, executor_llm>>
            ELSE /\ FinallyReset
                 /\ RecordAndReturn(ResultOutput(r))
    /\ UNCHANGED <<inventory, message, lookups, mark, calls>>
    /\ UNCHANGED <<tool_pc, tool_thread, coros, observation>>
    /\ UNCHANGED <<connvars, lookupvars, ordervars>>

\* inventory = await self._check_inventory_async("all") after a soft
\* failure of the fallback attempt
FallbackInventory(dbFails) ==
    /\ pc = "fallback_inventory"
    /\ LET l == Lookup(AllQuery, dbFails)
       IN  /\ lookups' = Append(lookups, l)
           /\ IF l.result.raised
              THEN FallbackRaised("fallback_inventory")
              ELSE /\ FinallyReset
                   /\ RecordAndReturn(SoftResponse(l.result))
    /\ UNCHANGED <<inventory, message, invocations, mark, calls>>
    /\ UNCHANGED <<toolvars, connvars, lookupvars, ordervars>>

\* except Exception as e: the degraded answer, returned without
\* add_ai_message
OuterExcept(dbFails) ==
    /\ pc = "outer_except"
    /\ LET l == Lookup(AllQuery, dbFails)
       IN  /\ lookups' = Append(lookups, l)
           /\ returned' = DegradedResponse(l.result)
    /\ pc' = "send"
    /\ UNCHANGED <<inventory, memory, current_llm, executor_llm, message,
                   invocations, mark, calls>>
    /\ UNCHANGED <<toolvars, connvars, lookupvars, ordervars>>

\* await websocket.send_text(response), back to receive_text()
SendText ==
    /\ pc = "send"
    /\ pc' = "receive"
    /\ UNCHANGED <<inventory, memory, current_llm, executor_llm, message,
                   returned, invocations, lookups, mark, calls>>
    /\ UNCHANGED <<toolvars, connvars, lookupvars, ordervars>>

\* except Exception: await websocket.close() -- the client went away in
\* receive_text(), or process_message raised
WebsocketClose ==
    /\ pc \in {"receive", "propagated"}
    /\ pc' = "closed"
    /\ UNCHANGED <<inventory, memory, current_llm, executor_llm, message,
                   returned, invocations, lookups, mark, calls>>
    /\ UNCHANGED <<toolvars, connvars, lookupvars, ordervars>>

Next ==
    \/ \E msg \in Messages : ReceiveText(msg)
    \/ \E r \in BackendReplies : PrimaryInvoke(r)
    \/ \E dbFails \in BOOLEAN : PrimaryInventory(dbFails)
    \/ \E r \in BackendReplies : FallbackInvoke(r)
    \/ \E dbFails \in BOOLEAN : FallbackInventory(dbFails)
    \/ \E dbFails \in BOOLEAN : OuterExcept(dbFails)
    \/ SendText
    \/ WebsocketClose

Spec == Init /\ [][Next]_vars

\* ------------------------------------------------------------- outcomes
\* the PipelineOutcome variant of the text a finished call returned
Outcome ==
    IF returned = Unavailable THEN "Failure"
    ELSE IF lookups # <<>> THEN "DegradedInventoryDump"
    ELSE IF invocations[Len(invocations)].llm = PrimaryLLM
         THEN "PrimarySuccess"
         ELSE "FallbackSuccess"

\* word occurs in text when letter case is disregarded
HasNoCase(text, word) ==
    \E i \in 1..Len(text) :
        /\ i + Len(word) - 1 <= Len(text)
        /\ \A k \in 1..Len(word) : LowerChar(text[i + k - 1]) = word[k]

ErrorShaped(text) == HasNoCase(text, ErrorWord) \/ HasNoCase(text, CouldntProcess)

BothRaised ==
    /\ Len(invocations) = 2
    /\ invocations[1].reply.raised
    /\ invocations[2].reply.raised

\* ---------------------------------------------------------------- claims
\* C1: within one process_message call the fallback backend is invoked if
\* and only if the primary invocation raised, it is invoked after the
\* primary, and it receives the same reasoning input as the primary did.
C1_FallbackChain ==
    /\ Len(invocations) <= 2
    /\ Len(invocations) >= 1 => invocations[1].llm = PrimaryLLM
    /\ Len(invocations) = 2 =>
          /\ invocations[1].reply.raised
          /\ invocations[2].llm = FallbackLLM
          /\ invocations[2].input = invocations[1].input
    /\ (pc = "send" /\ invocations[1].reply.raised) => Len(invocations) = 2

C1_Witness ==
    /\ pc = "send"
    /\ message = MsgShoes
    /\ Len(invocations) = 2
    /\ invocations[2].reply.output = OutOk

\* C2: once a backend call returns an error-shaped text, no further backend
\* call is made in that process_message call, the inventory lookup is run
\* with the unfiltered query, and the call returns the inventory dump.
C2_SoftFailureDegrades ==
    \A k \in 1..Len(invocations) :
        LET r == invocations[k].reply
        IN  (~r.raised /\ ErrorShaped(ResultOutput(r))) =>
              /\ k = Len(invocations)
              /\ pc \in {"primary_inventory", "fallback_inventory", "send",
                         "receive", "closed"}
              /\ pc \in {"send", "receive", "closed"} =>
                    /\ Len(lookups) = 1
                    /\ lookups[1].query = AllQuery
                    /\ IsAllQuery(lookups[1].query)
                    /\ returned = SoftPrefix \o lookups[1].result.text
                    /\ ~lookups[1].dbFails =>
                          /\ lookups[1].result.text = FormatInventory(
                                 get_inventory(inventory, None, None))
                          /\ Outcome = "DegradedInventoryDump"

C2_Witness ==
    /\ pc = "send"
    /\ Len(invocations) = 1
    /\ invocations[1].reply.output = OutError
    /\ Len(lookups) = 1
    /\ ~lookups[1].dbFails
    /\ Len(inventory) = 3

\* C3: when both backend invocations raise, the unfiltered inventory lookup
\* runs exactly once in that call and the call returns its rendered text.
C3_BothRaiseDegradeOnce ==
    /\ Len(lookups) <= 1
    /\ (pc = "send" /\ BothRaised) =>
          /\ Len(lookups) = 1
          /\ IsAllQuery(lookups[1].query)
          /\ returned = HardPrefix \o lookups[1].result.text

C3_Witness ==
    /\ pc = "send"
    /\ BothRaised
    /\ ~lookups[1].dbFails
    /\ Len(inventory) = 1

\* C4: whenever a process_message call has returned the active backend is
\* the primary, and every call invokes the primary backend first.
C4_BackendResets ==
    /\ pc \in {"send", "receive", "closed"} =>
          (current_llm = PrimaryLLM /\ executor_llm = PrimaryLLM)
    /\ pc = "primary" => executor_llm = PrimaryLLM
    /\ Len(invocations) >= 1 => invocations[1].llm = PrimaryLLM

\* the second call, begun after a first call in which both backends
\* raised (it left a lone user turn), has invoked the primary
C4_Witness ==
    /\ calls = 2
    /\ Len(memory) = 2
    /\ memory[1].role = "user"
    /\ memory[2].role = "user"
    /\ Len(invocations) = 1
    /\ invocations[1].llm = PrimaryLLM

\* C5: when the degraded path's inventory lookup fails, the call returns
\* the fixed "service unavailable" text and nothing else, and no other
\* call returns that text.
C5_InventoryFailureIsFailure ==
    pc = "send" =>
        ((lookups # <<>> /\ lookups[Len(lookups)].dbFails)
            <=> returned = Unavailable)

\* C6: whatever the two backends and the inventory store do, no exception
\* leaves process_message: every call begun reaches its return.
C6_NothingPropagates == pc # "propagated"

C6_Witness ==
    /\ pc = "send"
    /\ BothRaised
    /\ lookups[1].dbFails

\* C7: for a non-empty message, if every inventory lookup of the call
\* succeeded, the call returns a non-Failure outcome.
C7_NoFailureWhileInventoryWorks ==
    (/\ pc = "send"
     /\ Strip(message) # <<>>
     /\ \A k \in 1..Len(lookups) : ~lookups[k].dbFails) =>
        /\ Outcome \in {"PrimarySuccess", "FallbackSuccess",
                        "DegradedInventoryDump"}
        /\ returned # Unavailable
        /\ ~Contains(returned, InventoryTrouble)

C7_Witness ==
    /\ pc = "send"
    /\ Strip(message) # <<>>
    /\ BothRaised
    /\ ~lookups[1].dbFails
    /\ Outcome = "DegradedInventoryDump"
    /\ Len(inventory) = 3

\* C8: for an empty or whitespace-only message the call returns Failure
\* without calling either backend or the inventory lookup.
C8_EmptyMessageFailsFast ==
    (pc = "send" /\ Strip(message) = <<>>) =>
        /\ invocations = <<>>
        /\ lookups = <<>>
        /\ Outcome = "Failure"

\* C9: a call that returns a non-Failure outcome appends exactly two turns,
\* the user message and then the returned text as an assistant turn.
C9_TwoTurnsPerCall ==
    (pc = "send" /\ Outcome # "Failure") =>
        memory = SubSeq(memory, 1, mark)
                    \o <<HumanMessage(message), AIMessage(returned)>>

\* C10: the turns of the conversation alternate user, assistant, user, ...
\* starting with a user turn.
C10_TurnsAlternate ==
    \A i \in 1..Len(memory) :
        memory[i].role = IF i % 2 = 1 THEN "user" ELSE "assistant"

\* ------------------------------------------------------------ the prompt
\* the conversation turns the prompt of _create_agent renders from an
\* input: {input} is its only conversational placeholder
PromptTurns(inp) == <<HumanMessage(inp.input)>>

\* C11: a call whose degraded inventory lookup failed appends exactly one
\* turn, the user message, and no assistant turn.
C11_FailureAppendsUserTurnOnly ==
    (pc = "send" /\ lookups # <<>> /\ lookups[Len(lookups)].dbFails) =>
        memory = SubSeq(memory, 1, mark) \o <<HumanMessage(message)>>

\* C13: the reasoning input of every backend invocation carries the whole
\* turn history up to and including the current message, together with
\* the one-tool catalog.
C13_InputCarriesHistory ==
    \A k \in 1..Len(invocations) :
        /\ PromptTurns(invocations[k].input) = SubSeq(memory, 1, mark + 1)
        /\ invocations[k].input.tools = ToolsDescription
        /\ invocations[k].input.tool_names = ToolName

\* ------------------------------------------------ the check_inventory tool
\* where the executor runs the synchronous tool function: on the thread of
\* the event loop, or on a worker thread
ToolThreads == {"loop", "worker"}

\* what a backend asks the tool
ToolQueries == {MsgShoes}

\* the one process_message call of a connection has added its user turn
\* and awaits the primary ainvoke
ToolInit ==
    /\ inventory \in Catalogs
    /\ message \in Messages
    /\ memory = <<HumanMessage(message)>>
    /\ current_llm = PrimaryLLM
    /\ executor_llm = PrimaryLLM
    /\ pc = "primary"
    /\ returned = <<>>
    /\ invocations = <<>>
    /\ lookups = <<>>
    /\ mark = 0
    /\ calls = 1
    /\ ToolIdle
    /\ ConnIdle
    /\ LookupIdle
    /\ OrderIdle

\* the coroutine of the callback that is waiting
Own == Len(coros)

RemoveAt(s, i) == SubSeq(s, 1, i - 1) \o SubSeq(s, i + 1, Len(s))

\* the backend, inside ainvoke, calls the tool: _check_inventory_sync up
\* to future.result -- run_coroutine_threadsafe schedules the coroutine
ToolCall(q, thread) ==
    /\ pc \in {"primary", "fallback"}
    /\ tool_pc = "idle"
    /\ iterations < max_iterations
    /\ iterations' = iterations + 1
    /\ coros' = Append(coros, [query |-> q, state |-> "pending", text |-> <<>>,
                                failed |-> FALSE])
    /\ tool_pc' = "waiting"
    /\ tool_thread' = thread
    /\ UNCHANGED <<observation, pipevars, connvars, lookupvars, ordervars>>

\* run_coroutine_threadsafe itself raises (the loop is closed, say):
\* except Exception returns the apology and nothing is scheduled
ToolCallFails(q) ==
    /\ pc \in {"primary", "fallback"}
    /\ tool_pc = "idle"
    /\ iterations < max_iterations
    /\ iterations' = iterations + 1
    /\ observation' = [query |-> q, text |-> InventoryTrouble,
                       timed_out |-> FALSE, cause |-> "wrapper"]
    /\ UNCHANGED <<tool_pc, tool_thread, coros>>
    /\ UNCHANGED <<pipevars, connvars, lookupvars, ordervars>>

\* self.loop runs a scheduled _check_inventory_async to its end; it cannot
\* while its own thread is blocked in future.result. The result of a
\* coroutine nobody waits for is dropped.
CoroutineRun(i, dbFails) ==
    /\ i \in 1..Len(coros)
    /\ coros[i].state = "pending"
    /\ ~(tool_pc = "waiting" /\ tool_thread = "loop")
    /\ IF tool_pc = "waiting" /\ i = Own
       THEN coros' = [coros EXCEPT ![i] =
                [@ EXCEPT !.state = "done",
                          !.failed = dbFails,
                          !.text = CheckInventoryAsync(coros[i].query,
                                                       inventory,
                                                       dbFails).text]]
       ELSE coros' = RemoveAt(coros, i)
    /\ UNCHANGED <<tool_pc, tool_thread, observation, iterations>>
    /\ UNCHANGED <<pipevars, connvars, lookupvars, ordervars>>

\* future.result(timeout=10) returns the coroutine's text
ToolReturn ==
    /\ tool_pc = "waiting"
    /\ coros[Own].state = "done"
    /\ observation' = [query |-> coros[Own].query, text |-> coros[Own].text,
                       timed_out |-> FALSE,
                       cause |-> IF coros[Own].failed THEN "store" ELSE "none"]
    /\ coros' = RemoveAt(coros, Own)
    /\ tool_pc' = "idle"
    /\ tool_thread' = "none"
    /\ UNCHANGED <<iterations, pipevars, connvars, lookupvars, ordervars>>

\* a wait without a timeout
ToolTimeoutNever == FALSE

\* future.result(timeout=10) raises TimeoutError: except Exception returns
\* the apology; the future is not cancelled
ToolTimeout ==
    /\ tool_pc = "waiting"
    /\ coros[Own].state = "pending"
    /\ observation' = [query |-> coros[Own].query, text |-> InventoryTrouble,
                       timed_out |-> TRUE, cause |-> "timeout"]
    /\ tool_pc' = "idle"
    /\ tool_thread' = "none"
    /\ UNCHANGED <<coros, iterations, pipevars, connvars, lookupvars, ordervars>>

ToolNext ==
    \/ \E q \in ToolQueries, thread \in ToolThreads : ToolCall(q, thread)
    \/ \E q \in ToolQueries : ToolCallFails(q)
    \/ \E i \in 1..Len(coros), dbFails \in BOOLEAN : CoroutineRun(i, dbFails)
    \/ ToolReturn
    \/ ToolTimeout
    \/ \E r \in BackendReplies : PrimaryInvoke(r)
    \/ \E dbFails \in BOOLEAN : PrimaryInventory(dbFails)
    \/ \E r \in BackendReplies : FallbackInvoke(r)
    \/ \E dbFails \in BOOLEAN : FallbackInventory(dbFails)
    \/ \E dbFails \in BOOLEAN : OuterExcept(dbFails)
    \/ SendText
    \/ WebsocketClose

\* What the code makes certain is the 10-unit timer of future.result and
\* the send that follows a return. No timer runs beside the await of
\* ainvoke or beside the store, so neither a backend's reply nor the end of
\* an inventory coroutine is a step that must happen.
ToolSpec ==
    /\ ToolInit
    /\ [][ToolNext]_vars
    /\ WF_vars(ToolReturn \/ ToolTimeout)
    /\ WF_vars(SendText)

\* C12: every backend call is bounded by a timeout: a process_message call
\* that awaits a backend's reply (no tool callback is running and the
\* executor has iterations left, so the next word is the backend's)
\* eventually leaves that await, with the reply or as after a hard
\* failure, even when the backend never replies.
C12_BackendCallIsBounded ==
    \A at \in {"primary", "fallback"} :
        (pc = at /\ tool_pc = "idle" /\ iterations < 3)
            ~> ~(pc = at /\ tool_pc = "idle" /\ iterations < 3)

C15_NoDetachedCoroutine ==
    tool_pc = "idle" => \A i \in 1..Len(coros) : coros[i].state # "pending"

\* ---- several connections -------------------------------------------------

\* one agent object for the whole server
NewAgentShared == SetMin(Conns)

\* agent = RetailAgent(db=db): a new object, none of those already bound
NewAgent == CHOOSE a \in Conns : \A c \in Conns : agent_of[c] # a

\* process_message calls made so far on connection c
ConnCalls(c) ==
    Cardinality({i \in 1..Len(conn_log[c]) : conn_log[c][i].role = "user"})

ConnInit ==
    /\ ConnIdle
    /\ ToolIdle
    /\ LookupIdle
    /\ OrderIdle
    /\ inventory = <<SpeedRunnerPro>>
    /\ memory = <<>>
    /\ current_llm = PrimaryLLM
    /\ executor_llm = PrimaryLLM
    /\ pc = "receive"
    /\ message = <<>>
    /\ returned = <<>>
    /\ invocations = <<>>
    /\ lookups = <<>>
    /\ mark = 0
    /\ calls = 0

\* await websocket.accept(); agent = RetailAgent(db=db), whose constructor
\* makes an empty ConversationBufferMemory
Accept(c) ==
    /\ conn_pc[c] = "connecting"
    /\ agent_of' = [agent_of EXCEPT ![c] = NewAgent]
    /\ memories' = [memories EXCEPT ![NewAgent] = <<>>]
    /\ conn_pc' = [conn_pc EXCEPT ![c] = "receiving"]
    /\ UNCHANGED <<conn_log, pipevars, toolvars, lookupvars, ordervars>>

\* message = await websocket.receive_text(); process_message records the
\* user turn on the connection's agent and suspends at its first await
ConnReceive(c, msg) ==
    /\ conn_pc[c] = "receiving"
    /\ ConnCalls(c) < MaxCalls
    /\ memories' = [memories EXCEPT
                      ![agent_of[c]] = Append(@, HumanMessage(msg))]
    /\ conn_log' = [conn_log EXCEPT ![c] = Append(@, HumanMessage(msg))]
    /\ conn_pc' = [conn_pc EXCEPT ![c] = "processing"]
    /\ UNCHANGED <<agent_of, pipevars, toolvars, lookupvars, ordervars>>

\* the rest of process_message and send_text: the return of line 244 has
\* recorded the assistant turn, the return of line 250 has not
ConnRespond(c, recorded) ==
    /\ conn_pc[c] = "processing"
    /\ memories' = [memories EXCEPT
                      ![agent_of[c]] =
                          IF recorded THEN Append(@, AIMessage(OutOk)) ELSE @]
    /\ conn_log' = [conn_log EXCEPT
                      ![c] = IF recorded THEN Append(@, AIMessage(OutOk)) ELSE @]
    /\ conn_pc' = [conn_pc EXCEPT ![c] = "receiving"]
    /\ UNCHANGED <<agent_of, pipevars, toolvars, lookupvars, ordervars>>

\* receive_text raises on disconnect: except Exception closes the socket
ConnClose(c) ==
    /\ conn_pc[c] = "receiving"
    /\ conn_pc' = [conn_pc EXCEPT ![c] = "closed"]
    /\ UNCHANGED <<agent_of, memories, conn_log, pipevars, toolvars,
                   lookupvars, ordervars>>

ConnNext ==
    \/ \E c \in Conns : Accept(c)
    \/ \E c \in Conns : ConnReceive(c, MsgShoes)
    \/ \E c \in Conns, recorded \in BOOLEAN : ConnRespond(c, recorded)
    \/ \E c \in Conns : ConnClose(c)

ConnSpec == ConnInit /\ [][ConnNext]_vars

\* C16: each connection has exactly one agent state, made when the
\* connection is accepted and kept until it closes; the state holds the
\* turns of its own connection and of no other, whatever the interleaving
\* of the connections.
C16_OneStatePerConnection ==
    /\ [](\A c \in Conns : (agent_of[c] = 0) <=> (conn_pc[c] = "connecting"))
    /\ [](\A c \in Conns :
            agent_of[c] # 0 => memories[agent_of[c]] = conn_log[c])
    /\ [](\A c, d \in Conns :
            (c # d /\ agent_of[c] # 0 /\ agent_of[d] # 0) =>
                agent_of[c] # agent_of[d])
    /\ [][\A c \in Conns : agent_of[c] # 0 => agent_of'[c] = agent_of[c]]_vars

\* two connections are open at once, one in the middle of its second call
C16_Witness ==
    /\ conn_pc[1] = "processing"
    /\ conn_pc[2] = "receiving"
    /\ Len(conn_log[1]) = 3
    /\ Len(conn_log[2]) = 2

\* ---- the lookup alone ----------------------------------------------------
QAllPadded ==
    <<" ","A","L","L"," ">>

QShowAllCaps ==
    <<"S","h","o","w"," ","A","l","l">>

QSize10 ==
    <<"s","i","z","e"," ","1","0">>

QSizeTight ==
    <<"S","i","z","e","1","0">>

QSizeWord ==
    <<"s","i","z","e"," ","t","e","n">>

QSizeLater ==
    <<"s","i","z","e","s"," ","o","r"," ","s","i","z","e"," ","9">>

QRunning ==
    <<"r","u","n","n","i","n","g"," ","s","h","o","e","s">>

QSwimming ==
    <<"s","w","i","m","m","i","n","g"," ","g","e","a","r">>

QHikingRunning ==
    <<"h","i","k","i","n","g"," ","o","r"," ","r","u","n","n","i","n","g">>

QWalking ==
    <<"W","A","L","K","I","N","G"," ","s","i","z","e"," ","9">>

QHiking9 ==
    <<"h","i","k","i","n","g"," ","9">>

QTen ==
    <<"1","0">>

Ten == <<"1","0">>

Nine == <<"9">>

QWalkingHiking ==
    <<"w","a","l","k","i","n","g"," ","t","h","e","n"," ","h","i","k","i",
      "n","g"," ","b","o","o","t","s">>

QAllThree ==
    <<"W","a","l","k","i","n","g",","," ","H","i","k","i","n","g",","," ",
      "R","U","N","N","I","N","G">>

LookupQueries ==
    {AllQuery, <<>>, ShowAllQuery, EverythingQuery, MsgBlank, QAllPadded,
     QShowAllCaps, QSize10, QSizeTight, QSizeWord, QSizeLater, QRunning,
     QSwimming, MsgShoes, QHikingRunning, QWalking, QHiking9, QTen,
     QWalkingHiking, QAllThree}

LookupInit ==
    /\ lookup_query \in LookupQueries
    /\ lookup = <<>>
    /\ inventory \in Catalogs
    /\ OrderIdle
    /\ ToolIdle
    /\ ConnIdle
    /\ memory = <<>>
    /\ current_llm = PrimaryLLM
    /\ executor_llm = PrimaryLLM
    /\ pc = "receive"
    /\ message = <<>>
    /\ returned = <<>>
    /\ invocations = <<>>
    /\ lookups = <<>>
    /\ mark = 0
    /\ calls = 0

\* one call of _check_inventory_async(lookup_query), kept with what it
\* parsed and fetched on the way
CheckInventory(dbFails) ==
    /\ lookup = <<>>
    /\ lookup' = [parsed |-> ParseQuery(lookup_query),
                  rows |-> IF dbFails THEN <<>>
                           ELSE LookupRows(lookup_query, inventory),
                  dbFails |-> dbFails,
                  text |-> CheckInventoryAsync(lookup_query, inventory,
                                               dbFails).text]
    /\ UNCHANGED <<lookup_query, pipevars, toolvars, connvars, ordervars>>

LookupNext == \E dbFails \in BOOLEAN : CheckInventory(dbFails)

LookupSpec == LookupInit /\ [][LookupNext]_vars

\* C17: query parsing. A query that is "all", "", "show all" or
\* "everything" once trimmed and lowercased is unfiltered; otherwise the
\* size is the digits after "size" (unset without that pattern) and the
\* activity a keyword the query contains (unset without one), each found
\* on its own. The rows fetched are the in-stock rows that pass the
\* filters, so a query with neither fetches the whole in-stock catalog and
\* is no error.
C17_QueryParsing ==
    lookup # <<>> =>
        LET unf == [unfiltered |-> TRUE, activity |-> None, size |-> None]
            flt(a, s) == [unfiltered |-> FALSE, activity |-> a, size |-> s]
            expected ==
                CASE lookup_query \in {AllQuery, <<>>, ShowAllQuery,
                                       EverythingQuery, MsgBlank, QAllPadded,
                                       QShowAllCaps} -> {unf}
                  [] lookup_query = QSize10 -> {flt(None, Ten)}
                  [] lookup_query = QSizeTight -> {flt(None, Ten)}
                  [] lookup_query = QSizeWord -> {flt(None, None)}
                  [] lookup_query = QSizeLater -> {flt(None, Nine)}
                  [] lookup_query = QRunning -> {flt(Running, None)}
                  [] lookup_query = QSwimming -> {flt(None, None)}
                  [] lookup_query = MsgShoes -> {flt(Running, Ten)}
                  [] lookup_query = QHikingRunning ->
                        {flt(Running, None), flt(Hiking, None)}
                  [] lookup_query = QWalking -> {flt(Walking, Nine)}
                  [] lookup_query = QHiking9 -> {flt(Hiking, None)}
                  [] lookup_query = QTen -> {flt(None, None)}
                  [] lookup_query = QWalkingHiking ->
                        {flt(Walking, None), flt(Hiking, None)}
                  [] lookup_query = QAllThree ->
                        {flt(Walking, None), flt(Hiking, None),
                         flt(Running, None)}
            p == lookup.parsed
            wanted == {k \in 1..Len(inventory) :
                         /\ inventory[k].stock > 0
                         /\ p.activity # None =>
                               inventory[k].activity = p.activity
                         /\ p.size # None => inventory[k].size = p.size}
        IN  /\ p \in expected
            /\ ~lookup.dbFails =>
                  /\ {lookup.rows[k].id : k \in 1..Len(lookup.rows)}
                        = {inventory[k].id : k \in wanted}
                  /\ Len(lookup.rows) = Cardinality(wanted)
                  /\ lookup.text # InventoryTrouble

\* "running shoes size 10" picked the two running shoes of size 10 out of
\* a catalog of three
C17_Witness ==
    /\ lookup # <<>>
    /\ ~lookup.dbFails
    /\ lookup_query = MsgShoes
    /\ Len(inventory) = 3
    /\ Len(lookup.rows) = 2

\* C18: the groups of the rendered text stand in the order in which each
\* activity is first seen among the items, each activity has one header,
\* and every item stands under the header of its own activity, the items
\* of a group in their original order; [running, hiking, running] gives
\* "Running Shoes:" and then "Hiking Shoes:".
C18_FirstSeenGroupOrder ==
    (lookup # <<>> /\ ~lookup.dbFails /\ lookup.rows # <<>>) =>
        LET t == lookup.text
            items == lookup.rows
            acts == {items[k].activity : k \in 1..Len(items)}
            cuts == {0} \cup {i \in 1..Len(t) : t[i] = "\n"}
            next(b) == SetMin({i \in cuts \cup {Len(t) + 1} : i > b})
            line(b) == SubSeq(t, b + 1, next(b) - 1)
            header(a) == <<UpperChar(a[1])>> \o Tail(a) \o ShoesHeader
            IsHeader(b) ==
                /\ Len(line(b)) > Len(ShoesHeader)
                /\ line(b)[1] # "-"
                /\ MatchAt(line(b), ShoesHeader,
                           Len(line(b)) - Len(ShoesHeader) + 1)
            hpos(a) == {b \in cuts : line(b) = header(a)}
            first(a) == SetMin({k \in 1..Len(items) : items[k].activity = a})
            ipos(k) == {b \in cuts : line(b) = ShoeLine(items[k])}
            own(b) == SetMax({h \in cuts : IsHeader(h) /\ h < b})
        IN  /\ \A a \in acts : Cardinality(hpos(a)) = 1
            /\ \A b \in cuts : IsHeader(b) => \E a \in acts : b \in hpos(a)
            /\ \A a1, a2 \in acts :
                  first(a1) < first(a2) =>
                      SetMin(hpos(a1)) < SetMin(hpos(a2))
            /\ \A k \in 1..Len(items) :
                  /\ Cardinality(ipos(k)) = 1
                  /\ own(SetMin(ipos(k))) \in hpos(items[k].activity)
            /\ \A k, m \in 1..Len(items) :
                  (k < m /\ items[k].activity = items[m].activity) =>
                      SetMin(ipos(k)) < SetMin(ipos(m))
            /\ [k \in 1..Len(items) |-> items[k].activity]
                    = <<Running, Hiking, Running>> =>
                  LET hs == {b \in cuts : IsHeader(b)}
                  IN  /\ Cardinality(hs) = 2
                      /\ line(SetMin(hs))
                            = <<"R","u","n","n","i","n","g"," ","S","h","o",
                                "e","s",":">>
                      /\ line(SetMax(hs))
                            = <<"H","i","k","i","n","g"," ","S","h","o","e",
                                "s",":">>

\* a lookup rendered a running, a hiking and another running shoe
C18_Witness ==
    /\ lookup # <<>>
    /\ ~lookup.dbFails
    /\ [k \in 1..Len(lookup.rows) |-> lookup.rows[k].activity]
          = <<Running, Hiking, Running>>

\* C20: when no in-stock item matches the parsed query the lookup returns
\* exactly "No shoes found matching your criteria.", without introduction,
\* group header or closing prompt; when an item matches, the closing
\* prompt is the last line.
C20_NoMatchTextAndClosingLast ==
    (lookup # <<>> /\ ~lookup.dbFails) =>
        LET t == lookup.text
            p == lookup.parsed
            matches == {k \in 1..Len(inventory) :
                          /\ inventory[k].stock > 0
                          /\ p.activity # None =>
                                inventory[k].activity = p.activity
                          /\ p.size # None => inventory[k].size = p.size}
            last == SetMax({0} \cup {i \in 1..Len(t) : t[i] = "\n"})
        IN  IF matches = {}
            THEN /\ t = <<"N","o"," ","s","h","o","e","s"," ","f","o","u",
                          "n","d"," ","m","a","t","c","h","i","n","g"," ",
                          "y","o","u","r"," ","c","r","i","t","e","r","i",
                          "a",".">>
                 /\ ~Contains(t, Intro)
                 /\ ~Contains(t, ShoesHeader)
                 /\ ~Contains(t, Tail(Closing))
            ELSE /\ SubSeq(t, last + 1, Len(t)) = Tail(Closing)
                 /\ SubSeq(t, 1, Len(Intro) + 1) = Intro \o <<"\n">>

\* a hiking query on a catalog whose only hiking shoe is out of stock
C20_Witness ==
    /\ lookup # <<>>
    /\ ~lookup.dbFails
    /\ lookup.parsed.activity = Hiking
    /\ Len(inventory) = 3
    /\ lookup.rows = <<>>
    /\ lookup.text = NoShoes

\* C19 as claimed: with the single item Speed Runner Pro (running, size 10,
\* 129.99, 5 in stock) the message "running shoes size 10" answered by the
\* degraded path returns exactly the rendered inventory, with nothing
\* before or after it.
C19_DegradedScenarioExact ==
    (/\ pc = "send"
     /\ message = MsgShoes
     /\ Len(inventory) = 1
     /\ lookups # <<>>
     /\ ~lookups[Len(lookups)].dbFails) =>
        LET scenario ==
                <<"H","e","r","e"," ","a","r","e"," ","t","h","e"," ","a",
                  "v","a","i","l","a","b","l","e"," ","s","h","o","e","s",
                  ":","\n","\n","R","u","n","n","i","n","g"," ","S","h","o",
                  "e","s",":","\n","-"," ","S","p","e","e","d"," ","R","u",
                  "n","n","e","r"," ","P","r","o",","," ","S","i","z","e",
                  " ","1","0",","," ","$","1","2","9",".","9","9"," ","(",
                  "5"," ","i","n"," ","s","t","o","c","k",")","\n","\n","W",
                  "o","u","l","d"," ","y","o","u"," ","l","i","k","e"," ",
                  "m","o","r","e"," ","i","n","f","o","r","m","a","t","i",
                  "o","n"," ","a","b","o","u","t"," ","a","n","y"," ","s",
                  "p","e","c","i","f","i","c"," ","s","h","o","e","?">>
        IN  returned = scenario

\* C19 as amended: the lookup made by the degraded path yields exactly that
\* text, and the call returns it preceded by the transition sentence of the
\* path taken and a newline.
C19_DegradedScenarioPrefixed ==
    (/\ pc = "send"
     /\ message = MsgShoes
     /\ Len(inventory) = 1
     /\ lookups # <<>>
     /\ ~lookups[Len(lookups)].dbFails) =>
        LET scenario ==
                <<"H","e","r","e"," ","a","r","e"," ","t","h","e"," ","a",
                  "v","a","i","l","a","b","l","e"," ","s","h","o","e","s",
                  ":","\n","\n","R","u","n","n","i","n","g"," ","S","h","o",
                  "e","s",":","\n","-"," ","S","p","e","e","d"," ","R","u",
                  "n","n","e","r"," ","P","r","o",","," ","S","i","z","e",
                  " ","1","0",","," ","$","1","2","9",".","9","9"," ","(",
                  "5"," ","i","n"," ","s","t","o","c","k",")","\n","\n","W",
                  "o","u","l","d"," ","y","o","u"," ","l","i","k","e"," ",
                  "m","o","r","e"," ","i","n","f","o","r","m","a","t","i",
                  "o","n"," ","a","b","o","u","t"," ","a","n","y"," ","s",
                  "p","e","c","i","f","i","c"," ","s","h","o","e","?">>
        IN  /\ lookups[Len(lookups)].result.text = scenario
            /\ returned =
                  (IF BothRaised
                   THEN <<"I"," ","a","p","o","l","o","g","i","z","e"," ",
                          "f","o","r"," ","t","h","e"," ","c","o","n","f",
                          "u","s","i","o","n","."," ","L","e","t"," ","m",
                          "e"," ","s","h","o","w"," ","y","o","u"," ","o",
                          "u","r"," ","a","v","a","i","l","a","b","l","e",
                          " ","s","h","o","e","s",":","\n">>
                   ELSE <<"L","e","t"," ","m","e"," ","s","h","o","w"," ",
                          "y","o","u"," ","w","h","a","t"," ","w","e"," ",
                          "h","a","v","e"," ","a","v","a","i","l","a","b",
                          "l","e",":","\n">>) \o scenario

\* both backends raised on "running shoes size 10" with the one-shoe
\* catalog, and the degraded answer has been returned
C19_Witness ==
    /\ pc = "send"
    /\ message = MsgShoes
    /\ Len(inventory) = 1
    /\ BothRaised
    /\ lookups # <<>>
    /\ ~lookups[Len(lookups)].dbFails
    /\ Len(returned) > Len(HardPrefix)

\* ---- orders --------------------------------------------------------------
\* the table the orders run on: stocks 5, 0 and 3
OrderCatalog == CHOOSE c \in Catalogs : Len(c) = 3 /\ c[2].stock = 0

\* product ids asked for; 0 is the id of no row
OrderProducts == {OrderCatalog[k].id : k \in 1..Len(OrderCatalog)} \cup {0}

OrderQuantities == {1, 2}

OrderActivities == {None, Running, Hiking}

OrderSizes == {None, Ten, Nine}

RECURSIVE Ordered(_, _)
\* SUM(quantity) of the orders recorded for a product
Ordered(rows, product_id) ==
    IF Len(rows) = 0 THEN 0
    ELSE (IF rows[1].product_id = product_id THEN rows[1].quantity ELSE 0)
            + Ordered(Tail(rows), product_id)

OrderInit ==
    /\ inventory = OrderCatalog
    /\ OrderIdle
    /\ ToolIdle
    /\ ConnIdle
    /\ LookupIdle
    /\ memory = <<>>
    /\ current_llm = PrimaryLLM
    /\ executor_llm = PrimaryLLM
    /\ pc = "receive"
    /\ message = <<>>
    /\ returned = <<>>
    /\ invocations = <<>>
    /\ lookups = <<>>
    /\ mark = 0
    /\ calls = 0

\* place_order up to its stock check: SELECT stock FROM inventory WHERE
\* id = ?, run outside any transaction; "if not stock or stock[0] <
\* quantity: return None"
PlaceOrderSelect(p, product_id, quantity) ==
    /\ placing[p].pc = "idle"
    /\ LET hit == {k \in 1..Len(inventory) : inventory[k].id = product_id}
       IN  IF hit = {} \/ \A k \in hit : inventory[k].stock < quantity
           THEN placing' = [placing EXCEPT ![p] = [pc |-> "done", result |-> 0]]
           ELSE placing' = [placing EXCEPT ![p] =
                               [pc |-> "checked", product_id |-> product_id,
                                quantity |-> quantity]]
    /\ UNCHANGED <<inventory, orders, queried>>
    /\ UNCHANGED <<callvars, toolvars, connvars, lookupvars>>

\* the write transaction of place_order: UPDATE inventory SET stock =
\* stock - ?, INSERT INTO orders, commit, return cursor.lastrowid. SQLite
\* lets one connection write at a time and shows the others nothing before
\* the commit, so the three statements are one step for everyone else.
PlaceOrderWrite(p) ==
    /\ placing[p].pc = "checked"
    /\ inventory' = [k \in 1..Len(inventory) |->
                        IF inventory[k].id = placing[p].product_id
                        THEN [inventory[k] EXCEPT
                                 !.stock = @ - placing[p].quantity]
                        ELSE inventory[k]]
    /\ orders' = Append(orders, [customer_id |-> p,
                                 product_id |-> placing[p].product_id,
                                 quantity |-> placing[p].quantity])
    /\ placing' = [placing EXCEPT
                      ![p] = [pc |-> "done", result |-> Len(orders) + 1]]
    /\ UNCHANGED queried
    /\ UNCHANGED <<callvars, toolvars, connvars, lookupvars>>

\* a statement of the write transaction raises (the database stays locked,
\* say): except Exception returns None, and closing the connection drops
\* what was not committed
PlaceOrderFails(p) ==
    /\ placing[p].pc = "checked"
    /\ placing' = [placing EXCEPT ![p] = [pc |-> "done", result |-> 0]]
    /\ UNCHANGED <<inventory, orders, queried>>
    /\ UNCHANGED <<callvars, toolvars, connvars, lookupvars>>

\* one get_inventory call on a connection of its own
QueryInventory(activity, size) ==
    /\ queried' = [activity |-> activity, size |-> size, table |-> inventory,
                   rows |-> get_inventory(inventory, activity, size)]
    /\ UNCHANGED <<inventory, orders, placing>>
    /\ UNCHANGED <<callvars, toolvars, connvars, lookupvars>>

OrderNext ==
    \/ \E p \in Procs, product_id \in OrderProducts,
          quantity \in OrderQuantities :
            PlaceOrderSelect(p, product_id, quantity)
    \/ \E p \in Procs : PlaceOrderWrite(p)
    \/ \E p \in Procs : PlaceOrderFails(p)
    \/ \E activity \in OrderActivities, size \in OrderSizes :
            QueryInventory(activity, size)

OrderSpec == OrderInit /\ [][OrderNext]_vars

\* C21: after any sequence of order placements get_inventory(activity,
\* size) returns exactly the rows whose stock is above 0 and whose activity
\* and size equal each filter that was given; a row whose stock has come
\* down to 0 is never returned and a filter that is not given excludes
\* nothing.
C21_QueryReturnsInStockMatches ==
    queried # <<>> =>
        LET t == queried.table
            wanted == {k \in 1..Len(t) :
                         /\ t[k].stock > 0
                         /\ queried.activity # None =>
                               t[k].activity = queried.activity
                         /\ queried.size # None => t[k].size = queried.size}
            got == queried.rows
        IN  /\ Len(got) = Cardinality(wanted)
            /\ {got[k] : k \in 1..Len(got)} = {t[k] : k \in wanted}
            /\ \A k \in 1..Len(got) : got[k].stock > 0
            /\ (queried.activity = None /\ queried.size = None) =>
                  Len(got) = Cardinality({k \in 1..Len(t) : t[k].stock > 0})

\* orders have sold the last running shoe of size 9, and a query for
\* running shoes ran on that table
C21_Witness ==
    /\ queried # <<>>
    /\ orders # <<>>
    /\ queried.activity = Running
    /\ queried.size = None
    /\ \E k \in 1..Len(queried.table) :
          /\ queried.table[k].activity = Running
          /\ queried.table[k].stock = 0
          /\ OrderCatalog[k].stock > 0
    /\ Len(queried.rows) = 1

\* C23: under any interleaving of concurrent place_order calls with
\* positive quantities no stock goes below 0: the quantities of the orders
\* recorded for a product never add up to more than its initial stock.
C23_StockNeverNegative ==
    \A k \in 1..Len(inventory) :
        /\ inventory[k].stock >= 0
        /\ Ordered(orders, inventory[k].id) <= OrderCatalog[k].stock

C24_LookupNeverRaises ==
    LET sorry ==
            <<"S","o","r","r","y",","," ","I"," ","h","a","d"," ","t","r",
                 "o","u","b","l","e"," ","c","h","e","c","k","i","n","g"," ",
                 "t","h","e"," ","i","n","v","e","n","t","o","r","y","."," ",
                 "P","l","e","a","s","e"," ","t","r","y"," ","a","g","a","i",
                 "n",".">>
    IN  /\ \A k \in 1..Len(lookups) :
              /\ ~lookups[k].result.raised
              /\ lookups[k].dbFails => lookups[k].result.text = sorry
        /\ (pc = "send" /\ lookups # <<>> /\ lookups[Len(lookups)].dbFails) =>
              returned \in {SoftPrefix \o sorry, HardPrefix \o sorry}
        /\ observation # <<>> =>
              IF observation.cause = "none"
              THEN observation.text =
                      FormatInventory(LookupRows(observation.query, inventory))
              ELSE observation.text = sorry

\* in one call the backend's tool call waited out its 10 units, and the
\* store then failed under the degraded path
C24_Witness ==
    /\ pc = "send"
    /\ observation # <<>>
    /\ observation.cause = "timeout"
    /\ lookups # <<>>
    /\ lookups[Len(lookups)].dbFails

\* C25: when a query holds more than one of the activity keywords the
\* activity is chosen by the fixed priority running, then hiking, then
\* walking, wherever the keywords stand in the text: "hiking or running
\* shoes" yields running.
C25_ActivityPriority ==
    (lookup # <<>> /\ ~lookup.parsed.unfiltered) =>
        /\ lookup.parsed.activity =
              (IF HasNoCase(lookup_query, Running) THEN Running
               ELSE IF HasNoCase(lookup_query, Hiking) THEN Hiking
               ELSE IF HasNoCase(lookup_query, Walking) THEN Walking
               ELSE None)
        /\ lookup_query = QHikingRunning =>
              lookup.parsed.activity = <<"r","u","n","n","i","n","g">>
        /\ lookup_query = QWalkingHiking =>
              lookup.parsed.activity = <<"h","i","k","i","n","g">>
        /\ ~lookup.dbFails =>
              \A k \in 1..Len(lookup.rows) :
                  lookup.parsed.activity \in {None, lookup.rows[k].activity}

\* "hiking or running" on the catalog of three shoes in stock fetched the
\* two running shoes and left the hiking shoe out
C25_Witness ==
    /\ lookup # <<>>
    /\ ~lookup.dbFails
    /\ lookup_query = QHikingRunning
    /\ \E k \in 1..Len(inventory) :
          inventory[k].activity = Hiking /\ inventory[k].stock > 0
    /\ Len(lookup.rows) = 2

====
